---- MODULE Spec2Model ----
(***************************************************************************)
(* Model of the two view components of the mobile app's presentation       *)
(* layer: the Home screen (a centred static text) and the reusable Button  *)
(* (a TouchableOpacity styled from colorPalette.colorBrand, holding the    *)
(* caller's label in a white Text).                                        *)
(*                                                                         *)
(* A string is a sequence of one-character strings, so that trimming,      *)
(* truncation, case changes and concatenation are all expressible.  A      *)
(* render-tree element is a record [type, props, children]: `children` is  *)
(* the JSX child list of the element, `props` the JSX attributes.          *)
(***************************************************************************)
EXTENDS Naturals, Sequences, FiniteSets

\* Longest label drawn as an input.
MaxLen == 2

\* Longest sequence of renders explored.
MaxRenders == 3

\* Characters of the labels: a lower-case letter and a blank, enough to tell a
\* verbatim label from a trimmed, truncated or case-changed one.
Alphabet == {"a", " "}

Labels == UNION {[1..n -> Alphabet] : n \in 0..MaxLen}

\* The named entries of the palette module and the values they may hold.
PaletteKeys == {"colorBrand", "colorAccent"}

Colors == {"#6200ee", "#03dac6"}

\* The callback props through which a TouchableOpacity reports a press.
PressCallbacks == {"onPress", "onPressIn", "onPressOut", "onLongPress"}

VARIABLES
    colorPalette,   \* the shared palette module: entry name -> color
    rendered,       \* the renders so far, in order: component, props, returned tree
    pressedAt,      \* Len(rendered) when the on-screen Button was last pressed, 0 if never
    invoked         \* the press callbacks the toolkit has invoked so far

vars == <<colorPalette, rendered, pressedAt, invoked>>

----------------------------------------------------------------------------
\* JSX elements.

NoProps == [k \in {} |-> k]

NullTree == [type |-> "null", props |-> NoProps, children |-> <<>>]

Element(type, props, children) ==
    [type |-> type, props |-> props, children |-> children]

HelloUniverse ==
    <<"H", "e", "l", "l", "o", " ", "U", "n", "i", "v", "e", "r", "s", "e">>

----------------------------------------------------------------------------
\* Home screen (src/unnamed/part_000).

stylesOffCentre ==
    [container |-> [flex |-> 1, justifyContent |-> "center",
                    alignItems |-> "flex-start", gap |-> 10]]

\* StyleSheet.create({container: {...}}), evaluated once at module load.
styles ==
    [container |-> [flex |-> 1, justifyContent |-> "center",
                    alignItems |-> "center", gap |-> 10]]

\* A Home that echoes the label of the latest Button render, if there is one.
HomeEchoingLabel ==
    LET buttons == {i \in DOMAIN rendered : rendered[i].component = "Button"}
        last == CHOOSE i \in buttons : \A j \in buttons : j <= i
    IN  Element("View", [style |-> styles.container],
            <<Element("Text", NoProps,
                <<IF buttons = {} THEN HelloUniverse
                  ELSE rendered[last].props.label>>)>>)

\* <View style={styles.container}><Text>Hello Universe</Text></View>
\* (this Text is the one of @react-navigation/elements).
Home ==
    Element("View", [style |-> styles.container],
        <<Element("Text", NoProps, <<HelloUniverse>>)>>)

----------------------------------------------------------------------------
\* Button (src/zbase_rn_project/mobile-app/src/components/Button.tsx).

RECURSIVE TrimStart(_)
TrimStart(s) ==
    IF s # <<>> /\ Head(s) = " " THEN TrimStart(Tail(s)) ELSE s

RECURSIVE TrimEnd(_)
TrimEnd(s) ==
    IF s # <<>> /\ s[Len(s)] = " " THEN TrimEnd(SubSeq(s, 1, Len(s) - 1)) ELSE s

ButtonStyle ==
    [backgroundColor |-> colorPalette["colorBrand"], borderRadius |-> 24, padding |-> 12]

\* A Button that trims its label before showing it.
ButtonTrimmed(label) ==
    Element("TouchableOpacity", [style |-> ButtonStyle],
        <<Element("Text", [style |-> [color |-> "white"]], <<TrimEnd(TrimStart(label))>>)>>)

\* A Button whose padding grows with a module-level render counter.
ButtonCounting(label) ==
    Element("TouchableOpacity",
        [style |-> [ButtonStyle EXCEPT !.padding = 12 + Len(rendered)]],
        <<Element("Text", [style |-> [color |-> "white"]], <<label>>)>>)

\* A Button that takes its background from another palette entry.
ButtonAccent(label) ==
    Element("TouchableOpacity",
        [style |-> [ButtonStyle EXCEPT !.backgroundColor = colorPalette["colorAccent"]]],
        <<Element("Text", [style |-> [color |-> "white"]], <<label>>)>>)

\* A Button whose corner radius follows the length of its label.
ButtonSizedByLabel(label) ==
    Element("TouchableOpacity",
        [style |-> [ButtonStyle EXCEPT !.borderRadius = 24 + Len(label)]],
        <<Element("Text", [style |-> [color |-> "white"]], <<label>>)>>)

\* A Button that wires a press handler.
ButtonWired(label) ==
    Element("TouchableOpacity", [style |-> ButtonStyle, onPress |-> "handlePress"],
        <<Element("Text", [style |-> [color |-> "white"]], <<label>>)>>)

\* A Button that keeps the label of the previous Button render in front of its own.
ButtonRetaining(label) ==
    LET buttons == {i \in DOMAIN rendered : rendered[i].component = "Button"}
        last == CHOOSE i \in buttons : \A j \in buttons : j <= i
        kept == IF buttons = {} THEN <<>> ELSE rendered[last].props.label
    IN  Element("TouchableOpacity", [style |-> ButtonStyle],
            <<Element("Text", [style |-> [color |-> "white"]], <<kept \o label>>)>>)

\* A Button that renders nothing for an empty label.
ButtonNullOnEmpty(label) ==
    IF label = <<>> THEN NullTree
    ELSE Element("TouchableOpacity", [style |-> ButtonStyle],
            <<Element("Text", [style |-> [color |-> "white"]], <<label>>)>>)

\* <TouchableOpacity style={{backgroundColor: colorPalette.colorBrand,
\*    borderRadius: 24, padding: 12}}><Text style={{color: "white"}}>{label}</Text>
\* </TouchableOpacity>
Button(label) ==
    Element("TouchableOpacity",
        [style |-> [backgroundColor |-> colorPalette["colorBrand"],
                    borderRadius |-> 24,
                    padding |-> 12]],
        <<Element("Text", [style |-> [color |-> "white"]], <<label>>)>>)

----------------------------------------------------------------------------
\* The state machine: the host renders the components and the user presses.

Init ==
    /\ colorPalette \in [PaletteKeys -> Colors]
    /\ rendered = <<>>
    /\ pressedAt = 0
    /\ invoked = {}

\* A Button render that also overwrites the brand entry of the palette.
RenderButtonWriting(label) ==
    /\ Len(rendered) < MaxRenders
    /\ rendered' = Append(rendered,
            [component |-> "Button", props |-> [label |-> label], tree |-> Button(label)])
    /\ colorPalette' = [colorPalette EXCEPT !["colorBrand"] = colorPalette["colorAccent"]]
    /\ UNCHANGED <<pressedAt, invoked>>

\* The host calls Button({label}) and keeps the returned tree.
RenderButton(label) ==
    /\ Len(rendered) < MaxRenders
    /\ rendered' = Append(rendered,
            [component |-> "Button", props |-> [label |-> label], tree |-> Button(label)])
    /\ UNCHANGED <<colorPalette, pressedAt, invoked>>

\* The host calls Home() and keeps the returned tree.
RenderHome ==
    /\ Len(rendered) < MaxRenders
    /\ rendered' = Append(rendered,
            [component |-> "Home", props |-> NoProps, tree |-> Home])
    /\ UNCHANGED <<colorPalette, pressedAt, invoked>>

\* The user presses the TouchableOpacity on screen (the latest render): the
\* toolkit invokes the press callbacks found among its props, and nothing else
\* of the application changes.
Press ==
    /\ rendered # <<>>
    /\ rendered[Len(rendered)].tree.type = "TouchableOpacity"
    /\ invoked' = invoked \cup
            (PressCallbacks \cap DOMAIN rendered[Len(rendered)].tree.props)
    /\ pressedAt' = Len(rendered)
    /\ UNCHANGED <<colorPalette, rendered>>

Next ==
    \/ \E label \in Labels : RenderButton(label)
    \/ RenderHome
    \/ Press

Spec == Init /\ [][Next]_vars

----------------------------------------------------------------------------
\* Observations on the renders.

ButtonRenders == {i \in DOMAIN rendered : rendered[i].component = "Button"}

HomeRenders == {i \in DOMAIN rendered : rendered[i].component = "Home"}

TextElements(tree) == {k \in DOMAIN tree.children : tree.children[k].type = "Text"}

RECURSIVE Flatten(_)
Flatten(ss) == IF ss = <<>> THEN <<>> ELSE Head(ss) \o Flatten(Tail(ss))

\* Every string shown anywhere in the tree, in document order.
AllText(tree) == Flatten([k \in DOMAIN tree.children |-> tree.children[k].children])

\* The tree with the content of its text elements removed.
EraseText(tree) ==
    [tree EXCEPT !.children =
        [k \in DOMAIN tree.children |-> [tree.children[k] EXCEPT !.children = <<>>]]]

----------------------------------------------------------------------------
\* C1: for every non-empty label L, the tree returned by Button({label: L}) has
\* exactly one Text element, its content is exactly L, and it is the only
\* child of the TouchableOpacity root.
C1_LabelVerbatim ==
    \A i \in ButtonRenders :
        LET L == rendered[i].props.label
            t == rendered[i].tree
        IN  L # <<>> =>
                /\ t.type = "TouchableOpacity"
                /\ Len(t.children) = 1
                /\ Cardinality(TextElements(t)) = 1
                /\ t.children[1].type = "Text"
                /\ t.children[1].children = <<L>>
                /\ AllText(t) = <<L>>

\* A Button was rendered with a label that has a leading blank and a letter.
C1_Witness ==
    \E i \in ButtonRenders : rendered[i].props.label = <<" ", "a">>

\* C2: every call to Home() returns a tree whose only text is "Hello Universe",
\* whatever was rendered before it.
C2_HomeText ==
    \A i \in HomeRenders : AllText(rendered[i].tree) = <<HelloUniverse>>

\* Home was rendered after a Button with a non-empty label.
C2_Witness ==
    \E i \in ButtonRenders : \E j \in HomeRenders :
        i < j /\ rendered[i].props.label # <<>>

\* C3: any two renders of the same component with the same props return equal
\* trees, however many renders of either component happened in between.
C3_Deterministic ==
    \A i, j \in DOMAIN rendered :
        (rendered[i].component = rendered[j].component
            /\ (rendered[i].component = "Button" =>
                    rendered[i].props.label = rendered[j].props.label))
        => rendered[i].tree = rendered[j].tree

\* The same label was rendered twice with a render of Home in between.
C3_Witness ==
    \E i, k \in ButtonRenders : \E j \in HomeRenders :
        i < j /\ j < k /\ rendered[i].props.label = rendered[k].props.label

\* C4: the backgroundColor of the root of every Button tree is the value of
\* colorPalette.colorBrand, also when another entry of the palette differs.
C4_BrandBackground ==
    \A i \in ButtonRenders :
        rendered[i].tree.props.style.backgroundColor = colorPalette["colorBrand"]

\* A Button was rendered under a palette whose brand color is shared by no
\* other entry.
C4_Witness ==
    /\ ButtonRenders # {}
    /\ \A k \in PaletteKeys \ {"colorBrand"} : colorPalette[k] # colorPalette["colorBrand"]

\* C5: every Button tree has borderRadius 24, padding 12 and a white label, and
\* two Button trees differ only in their text.
C5_FixedStyling ==
    /\ \A i \in ButtonRenders :
            LET t == rendered[i].tree
            IN  /\ t.props.style.borderRadius = 24
                /\ t.props.style.padding = 12
                /\ \A k \in TextElements(t) : t.children[k].props.style.color = "white"
    /\ \A i, j \in ButtonRenders :
            EraseText(rendered[i].tree) = EraseText(rendered[j].tree)

\* Two Buttons were rendered with labels of different lengths.
C5_Witness ==
    \E i, j \in ButtonRenders :
        Len(rendered[i].props.label) < Len(rendered[j].props.label)

\* C6: no Button tree carries a press callback prop; a press invokes no
\* callback and changes neither the palette nor the renders; and a label
\* rendered again after a press gives the tree it gave before.
C6_NoPressHandler ==
    /\ [](\A i \in ButtonRenders :
            PressCallbacks \cap DOMAIN rendered[i].tree.props = {})
    /\ [](invoked = {})
    /\ [][pressedAt' # pressedAt =>
            UNCHANGED <<colorPalette, rendered, invoked>>]_vars
    /\ [](\A i, j \in ButtonRenders :
            (i <= pressedAt /\ pressedAt < j
                /\ rendered[i].props.label = rendered[j].props.label)
            => rendered[i].tree = rendered[j].tree)

\* A Button was rendered, pressed, and rendered again with the same label.
C6_Witness ==
    \E i, j \in ButtonRenders :
        /\ i = pressedAt
        /\ pressedAt < j
        /\ rendered[i].props.label = rendered[j].props.label

\* C7: every Home tree is one View with flex 1, justifyContent "center" and
\* alignItems "center", whose only child is a Text element.
C7_HomeContainer ==
    \A i \in HomeRenders :
        LET t == rendered[i].tree
        IN  /\ t.type = "View"
            /\ t.props.style.flex = 1
            /\ t.props.style.justifyContent = "center"
            /\ t.props.style.alignItems = "center"
            /\ Len(t.children) = 1
            /\ t.children[1].type = "Text"

\* Home was rendered.
C7_Witness == HomeRenders # {}

\* C8: the n-th Button render shows exactly its own label, equals a fresh
\* render of that label, and shows no label of an earlier render.
C8_LabelNotRetained ==
    \A i \in ButtonRenders :
        /\ AllText(rendered[i].tree) = <<rendered[i].props.label>>
        /\ rendered[i].tree = Button(rendered[i].props.label)
        /\ \A j \in ButtonRenders :
                (j < i /\ rendered[j].props.label # rendered[i].props.label)
                => AllText(rendered[i].tree) # <<rendered[j].props.label>>

\* Three Buttons were rendered in a row, each with another non-empty label.
C8_Witness ==
    /\ ButtonRenders = {1, 2, 3}
    /\ \A i, j \in ButtonRenders : i # j => rendered[i].props.label # rendered[j].props.label
    /\ \A i \in ButtonRenders : rendered[i].props.label # <<>>

C10_SameShapeForEveryLabel ==
    \A i \in ButtonRenders :
        LET t == rendered[i].tree
        IN  /\ t.type # "null"
            /\ t.type = "TouchableOpacity"
            /\ Len(t.children) = 1
            /\ t.children[1].type = "Text"
            /\ t.children[1].children = <<rendered[i].props.label>>
            /\ \A j \in ButtonRenders :
                    EraseText(t).children = EraseText(rendered[j].tree).children

\* A Button was rendered with the empty label and another with a longest one.
C10_Witness ==
    /\ \E i \in ButtonRenders : rendered[i].props.label = <<>>
    /\ \E i \in ButtonRenders : Len(rendered[i].props.label) = MaxLen

====
